---- MODULE Spec2Model ----
(***************************************************************************)
(* Model of app.py, the emissions dashboard: the two region-name           *)
(* normalizers, the two cached loaders, filtrar_emisiones, the per-group   *)
(* top-10 ranking, the heatmap grid and its cell/hover formatting, and the *)
(* script run that feeds the four tabs.                                    *)
(*                                                                         *)
(* Text values are sequences of one-character strings, so that TRIM,       *)
(* ILIKE, str.upper and the f-string formatting are computed character by  *)
(* character.  None and NaN are the one-element sequences <<"None">> and   *)
(* <<"NaN">>, which no text value equals.  An optional integer is <<>>     *)
(* (None) or <<n>>.  Quantities are whole tonnes.  A table is a sequence   *)
(* of records, one per row, in row order.                                  *)
(***************************************************************************)
EXTENDS Integers, Sequences, FiniteSets, TLC

VARIABLES
  \* the normalizers applied to one raw name
  raw, region_norm, region_renorm, geo_norm,
  \* one heatmap value and its two renderings
  val, text_val, emis_str,
  \* one direct call of filtrar_emisiones
  df, args, df2,
  \* one group of records and its top-10 ranking
  df_r, tie, top10,
  \* the two st.cache_data caches and the clock
  now, source, emisCache, geoCache, lastFn, queried, ret,
  \* one script run: the database, the widgets, the filtered table, the tabs
  db, df_emisiones, sel, df_filtrado, tabs, pc

varsNorm == <<raw, region_norm, region_renorm, geo_norm>>
varsFmt == <<val, text_val, emis_str>>
varsFil == <<df, args, df2>>
varsTop == <<df_r, tie, top10>>
varsCache == <<now, source, emisCache, geoCache, lastFn, queried, ret>>
varsRun == <<db, df_emisiones, sel, df_filtrado, tabs, pc>>
vars == <<varsNorm, varsFmt, varsFil, varsTop, varsCache, varsRun>>

None == <<"None">>
NaN == <<"NaN">>
Pending == <<"Pending">>

\* a table or ranking not computed yet is <<>>, a computed one t is <<t>>
NoResult == <<>>

(***************************************************************************)
(* Characters and text                                                     *)
(***************************************************************************)
UpperChars ==
  <<"A","B","C","D","E","F","G","H","I","J","K","L","M","N","O","P","Q","R",
    "S","T","U","V","W","X","Y","Z","Á","É","Í","Ó","Ú","Ñ">>

LowerChars ==
  <<"a","b","c","d","e","f","g","h","i","j","k","l","m","n","o","p","q","r",
    "s","t","u","v","w","x","y","z","á","é","í","ó","ú","ñ">>

IndexIn(c, s) == CHOOSE i \in 1..Len(s) : s[i] = c

LowerChar(c) ==
  IF \E i \in 1..Len(UpperChars) : UpperChars[i] = c
  THEN LowerChars[IndexIn(c, UpperChars)] ELSE c

UpperChar(c) ==
  IF \E i \in 1..Len(LowerChars) : LowerChars[i] = c
  THEN UpperChars[IndexIn(c, LowerChars)] ELSE c

Lower(s) == [i \in 1..Len(s) |-> LowerChar(s[i])]

\* str.upper (line 482, 483)
Upper(s) == [i \in 1..Len(s) |-> UpperChar(s[i])]

RECURSIVE LTrim(_)
LTrim(s) == IF s # <<>> /\ Head(s) = " " THEN LTrim(Tail(s)) ELSE s

RECURSIVE RTrim(_)
RTrim(s) ==
  IF s # <<>> /\ s[Len(s)] = " " THEN RTrim(SubSeq(s, 1, Len(s) - 1)) ELSE s

\* SQL TRIM(x): strips the blanks (and only the blanks) at both ends
Trim(s) == RTrim(LTrim(s))

\* SQL s ILIKE pattern: % matches any run of characters, _ any one character,
\* every other character matches itself in either letter case
RECURSIVE ILike(_, _)
ILike(s, pattern) ==
  IF pattern = <<>> THEN s = <<>>
  ELSE IF Head(pattern) = "%"
       THEN ILike(s, Tail(pattern)) \/ (s # <<>> /\ ILike(Tail(s), pattern))
  ELSE /\ s # <<>>
       /\ Head(pattern) = "_" \/ LowerChar(Head(s)) = LowerChar(Head(pattern))
       /\ ILike(Tail(s), Tail(pattern))

(***************************************************************************)
(* The two mapping tables                                                  *)
(***************************************************************************)
\* the WHEN ... THEN ... arms of the CASE, in order: <<pattern, result>>
CaseTable ==
  <<
    \* line 53: Metropolitana% -> Metropolitana de Santiago
    << <<"M","e","t","r","o","p","o","l","i","t","a","n","a","%">>,
       <<"M","e","t","r","o","p","o","l","i","t","a","n","a"," ","d","e"," ","S","a","n","t","i","a","g","o">> >>,
    \* line 54: Araucanía -> La Araucanía
    << <<"A","r","a","u","c","a","n","í","a">>,
       <<"L","a"," ","A","r","a","u","c","a","n","í","a">> >>,
    \* line 55: Ñuble -> Ñuble
    << <<"Ñ","u","b","l","e">>,
       <<"Ñ","u","b","l","e">> >>,
    \* line 56: Coquimbo -> Coquimbo
    << <<"C","o","q","u","i","m","b","o">>,
       <<"C","o","q","u","i","m","b","o">> >>,
    \* line 57: Tarapacá -> Tarapacá
    << <<"T","a","r","a","p","a","c","á">>,
       <<"T","a","r","a","p","a","c","á">> >>,
    \* line 58: Antofagasta -> Antofagasta
    << <<"A","n","t","o","f","a","g","a","s","t","a">>,
       <<"A","n","t","o","f","a","g","a","s","t","a">> >>,
    \* line 59: La Araucanía -> La Araucanía
    << <<"L","a"," ","A","r","a","u","c","a","n","í","a">>,
       <<"L","a"," ","A","r","a","u","c","a","n","í","a">> >>,
    \* line 60: Los Lagos -> Los Lagos
    << <<"L","o","s"," ","L","a","g","o","s">>,
       <<"L","o","s"," ","L","a","g","o","s">> >>,
    \* line 61: Los Ríos -> Los Ríos
    << <<"L","o","s"," ","R","í","o","s">>,
       <<"L","o","s"," ","R","í","o","s">> >>,
    \* line 62: Atacama -> Atacama
    << <<"A","t","a","c","a","m","a">>,
       <<"A","t","a","c","a","m","a">> >>,
    \* line 63: Biobío -> Biobío
    << <<"B","i","o","b","í","o">>,
       <<"B","i","o","b","í","o">> >>,
    \* line 64: Maule -> Maule
    << <<"M","a","u","l","e">>,
       <<"M","a","u","l","e">> >>,
    \* line 65: Arica y Parinacota -> Arica y Parinacota
    << <<"A","r","i","c","a"," ","y"," ","P","a","r","i","n","a","c","o","t","a">>,
       <<"A","r","i","c","a"," ","y"," ","P","a","r","i","n","a","c","o","t","a">> >>,
    \* line 66: Valparaíso -> Valparaíso
    << <<"V","a","l","p","a","r","a","í","s","o">>,
       <<"V","a","l","p","a","r","a","í","s","o">> >>,
    \* line 67: Magallanes y de la Antártica Chilena -> Magallanes y de la Antártica Chilena
    << <<"M","a","g","a","l","l","a","n","e","s"," ","y"," ","d","e"," ","l","a"," ","A","n","t","á","r","t","i","c","a"," ","C","h","i","l","e","n","a">>,
       <<"M","a","g","a","l","l","a","n","e","s"," ","y"," ","d","e"," ","l","a"," ","A","n","t","á","r","t","i","c","a"," ","C","h","i","l","e","n","a">> >>,
    \* line 68: Magallanes -> Magallanes y de la Antártica Chilena
    << <<"M","a","g","a","l","l","a","n","e","s">>,
       <<"M","a","g","a","l","l","a","n","e","s"," ","y"," ","d","e"," ","l","a"," ","A","n","t","á","r","t","i","c","a"," ","C","h","i","l","e","n","a">> >>,
    \* line 69: O'Higgins -> Libertador General Bernardo O'Higgins
    << <<"O","'","H","i","g","g","i","n","s">>,
       <<"L","i","b","e","r","t","a","d","o","r"," ","G","e","n","e","r","a","l"," ","B","e","r","n","a","r","d","o"," ","O","'","H","i","g","g","i","n","s">> >>,
    \* line 70: Libertador Gral. Bernardo O'Higgins -> Libertador General Bernardo O'Higgins
    << <<"L","i","b","e","r","t","a","d","o","r"," ","G","r","a","l","."," ","B","e","r","n","a","r","d","o"," ","O","'","H","i","g","g","i","n","s">>,
       <<"L","i","b","e","r","t","a","d","o","r"," ","G","e","n","e","r","a","l"," ","B","e","r","n","a","r","d","o"," ","O","'","H","i","g","g","i","n","s">> >>,
    \* line 71: Aysén del Gral. Carlos Ibáñez del Campo -> Aysén del General Carlos Ibáñez del Campo
    << <<"A","y","s","é","n"," ","d","e","l"," ","G","r","a","l","."," ","C","a","r","l","o","s"," ","I","b","á","ñ","e","z"," ","d","e","l"," ","C","a","m","p","o">>,
       <<"A","y","s","é","n"," ","d","e","l"," ","G","e","n","e","r","a","l"," ","C","a","r","l","o","s"," ","I","b","á","ñ","e","z"," ","d","e","l"," ","C","a","m","p","o">> >>,
    \* line 72: Aysén del General Carlos Ibáñez del Campo -> Aysén del General Carlos Ibáñez del Campo
    << <<"A","y","s","é","n"," ","d","e","l"," ","G","e","n","e","r","a","l"," ","C","a","r","l","o","s"," ","I","b","á","ñ","e","z"," ","d","e","l"," ","C","a","m","p","o">>,
       <<"A","y","s","é","n"," ","d","e","l"," ","G","e","n","e","r","a","l"," ","C","a","r","l","o","s"," ","I","b","á","ñ","e","z"," ","d","e","l"," ","C","a","m","p","o">> >>
  >>

\* the dictionary mapa_norm: <<key, value>>
mapa_norm ==
  <<
    \* line 114: Región Metropolitana de Santiago -> Metropolitana de Santiago
    << <<"R","e","g","i","ó","n"," ","M","e","t","r","o","p","o","l","i","t","a","n","a"," ","d","e"," ","S","a","n","t","i","a","g","o">>,
       <<"M","e","t","r","o","p","o","l","i","t","a","n","a"," ","d","e"," ","S","a","n","t","i","a","g","o">> >>,
    \* line 115: Región de La Araucanía -> La Araucanía
    << <<"R","e","g","i","ó","n"," ","d","e"," ","L","a"," ","A","r","a","u","c","a","n","í","a">>,
       <<"L","a"," ","A","r","a","u","c","a","n","í","a">> >>,
    \* line 116: Región de Ñuble -> Ñuble
    << <<"R","e","g","i","ó","n"," ","d","e"," ","Ñ","u","b","l","e">>,
       <<"Ñ","u","b","l","e">> >>,
    \* line 117: Región de Coquimbo -> Coquimbo
    << <<"R","e","g","i","ó","n"," ","d","e"," ","C","o","q","u","i","m","b","o">>,
       <<"C","o","q","u","i","m","b","o">> >>,
    \* line 118: Región de Tarapacá -> Tarapacá
    << <<"R","e","g","i","ó","n"," ","d","e"," ","T","a","r","a","p","a","c","á">>,
       <<"T","a","r","a","p","a","c","á">> >>,
    \* line 119: Región de Antofagasta -> Antofagasta
    << <<"R","e","g","i","ó","n"," ","d","e"," ","A","n","t","o","f","a","g","a","s","t","a">>,
       <<"A","n","t","o","f","a","g","a","s","t","a">> >>,
    \* line 120: Región de Los Lagos -> Los Lagos
    << <<"R","e","g","i","ó","n"," ","d","e"," ","L","o","s"," ","L","a","g","o","s">>,
       <<"L","o","s"," ","L","a","g","o","s">> >>,
    \* line 121: Región de Los Ríos -> Los Ríos
    << <<"R","e","g","i","ó","n"," ","d","e"," ","L","o","s"," ","R","í","o","s">>,
       <<"L","o","s"," ","R","í","o","s">> >>,
    \* line 122: Región de Atacama -> Atacama
    << <<"R","e","g","i","ó","n"," ","d","e"," ","A","t","a","c","a","m","a">>,
       <<"A","t","a","c","a","m","a">> >>,
    \* line 123: Región del Bío-Bío -> Biobío
    << <<"R","e","g","i","ó","n"," ","d","e","l"," ","B","í","o","-","B","í","o">>,
       <<"B","i","o","b","í","o">> >>,
    \* line 124: Región del Maule -> Maule
    << <<"R","e","g","i","ó","n"," ","d","e","l"," ","M","a","u","l","e">>,
       <<"M","a","u","l","e">> >>,
    \* line 125: Región de Arica y Parinacota -> Arica y Parinacota
    << <<"R","e","g","i","ó","n"," ","d","e"," ","A","r","i","c","a"," ","y"," ","P","a","r","i","n","a","c","o","t","a">>,
       <<"A","r","i","c","a"," ","y"," ","P","a","r","i","n","a","c","o","t","a">> >>,
    \* line 126: Región de Valparaíso -> Valparaíso
    << <<"R","e","g","i","ó","n"," ","d","e"," ","V","a","l","p","a","r","a","í","s","o">>,
       <<"V","a","l","p","a","r","a","í","s","o">> >>,
    \* line 127: Región de Magallanes y Antártica Chilena -> Magallanes y de la Antártica Chilena
    << <<"R","e","g","i","ó","n"," ","d","e"," ","M","a","g","a","l","l","a","n","e","s"," ","y"," ","A","n","t","á","r","t","i","c","a"," ","C","h","i","l","e","n","a">>,
       <<"M","a","g","a","l","l","a","n","e","s"," ","y"," ","d","e"," ","l","a"," ","A","n","t","á","r","t","i","c","a"," ","C","h","i","l","e","n","a">> >>,
    \* line 128: Región de Aysén del Gral.Ibañez del Campo -> Aysén del General Carlos Ibáñez del Campo
    << <<"R","e","g","i","ó","n"," ","d","e"," ","A","y","s","é","n"," ","d","e","l"," ","G","r","a","l",".","I","b","a","ñ","e","z"," ","d","e","l"," ","C","a","m","p","o">>,
       <<"A","y","s","é","n"," ","d","e","l"," ","G","e","n","e","r","a","l"," ","C","a","r","l","o","s"," ","I","b","á","ñ","e","z"," ","d","e","l"," ","C","a","m","p","o">> >>,
    \* line 129: Región del Libertador Bernardo O'Higgins -> Libertador General Bernardo O'Higgins
    << <<"R","e","g","i","ó","n"," ","d","e","l"," ","L","i","b","e","r","t","a","d","o","r"," ","B","e","r","n","a","r","d","o"," ","O","'","H","i","g","g","i","n","s">>,
       <<"L","i","b","e","r","t","a","d","o","r"," ","G","e","n","e","r","a","l"," ","B","e","r","n","a","r","d","o"," ","O","'","H","i","g","g","i","n","s">> >>,
    \* line 130: Zona sin demarcar -> Sin demarcar
    << <<"Z","o","n","a"," ","s","i","n"," ","d","e","m","a","r","c","a","r">>,
       <<"S","i","n"," ","d","e","m","a","r","c","a","r">> >>
  >>

SinDemarcar == <<"S","i","n"," ","d","e","m","a","r","c","a","r">>

\* the result of arm 7 (La Araucanía) written as the spelling arm 2 matches
RuleResult_OtherSpelling(i) == IF i = 7 THEN CaseTable[2][1] ELSE CaseTable[i][2]

RulePattern(i) == CaseTable[i][1]
RuleResult(i) == CaseTable[i][2]

Min(S) == CHOOSE x \in S : \A y \in S : x <= y
Max(S) == CHOOSE x \in S : \A y \in S : x >= y

\* CASE ... END AS region_norm: the first arm whose pattern matches the
\* trimmed region, else the trimmed region
RegionNorm(region) ==
  LET t == Trim(region)
      hits == {i \in 1..Len(CaseTable) : ILike(t, RulePattern(i))}
  IN  IF hits = {} THEN t ELSE RuleResult(Min(hits))

\* Series.map(mapa_norm): the value of the key equal to Region, NaN when
\* there is no such key
MapaNorm(Region) ==
  LET hits == {i \in 1..Len(mapa_norm) : mapa_norm[i][1] = Region}
  IN  IF hits = {} THEN NaN ELSE mapa_norm[Min(hits)][2]

(***************************************************************************)
(* Parts of the state a specification does not use stay at these values    *)
(***************************************************************************)
IdleNorm ==
  raw = <<>> /\ region_norm = Pending /\ region_renorm = Pending /\ geo_norm = Pending

IdleFmt == val = 0 /\ text_val = Pending /\ emis_str = Pending

IdleFil == df = <<>> /\ args = <<>> /\ df2 = NoResult

IdleTop == df_r = <<>> /\ tie = "asc" /\ top10 = NoResult

IdleCache ==
  /\ now = 0 /\ source = 0 /\ emisCache = <<>> /\ geoCache = <<>>
  /\ lastFn = "none" /\ queried = FALSE /\ ret = 0

IdleRun ==
  /\ db = <<>> /\ df_emisiones = NoResult /\ sel = <<>> /\ df_filtrado = NoResult
  /\ tabs = <<>> /\ pc = "idle"

(***************************************************************************)
(* SpecNorm: both normalizers applied to one raw region name               *)
(***************************************************************************)
MaxPad == 1

Blanks(n) == [i \in 1..n |-> " "]

\* the % of a pattern replaced by a tail, to get a name the pattern matches
Spelled(pattern, tail) ==
  IF pattern # <<>> /\ pattern[Len(pattern)] = "%"
  THEN SubSeq(pattern, 1, Len(pattern) - 1) \o tail
  ELSE pattern

PatternTails ==
  { <<>>, <<" ","d","e"," ","S","a","n","t","i","a","g","o">>, <<" ","R","M">> }

\* names no arm and no key covers
OtherNames ==
  { <<>>, <<" ">>,
    <<"S","a","n","t","i","a","g","o">>,
    <<"T","a","r","a","p","a","c","a">>,
    <<"B","í","o","-","B","í","o">>,
    <<"R","e","g","i","ó","n"," ","d","e","l"," ","B","i","o","b","í","o">>,
    <<"M","a","u","l","e","\t">>,
    <<"L","a","A","r","a","u","c","a","n","í","a">> }

CoreNames ==
  {Spelled(RulePattern(i), t) : i \in 1..Len(CaseTable), t \in PatternTails}
    \cup {CaseTable[i][2] : i \in 1..Len(CaseTable)}
    \cup {mapa_norm[i][1] : i \in 1..Len(mapa_norm)}
    \cup {mapa_norm[i][2] : i \in 1..Len(mapa_norm)}
    \cup OtherNames

RawNames ==
  { Blanks(a) \o c \o Blanks(b) :
      a \in 0..MaxPad, b \in 0..MaxPad,
      c \in CoreNames \cup {Lower(n) : n \in CoreNames} \cup {Upper(n) : n \in CoreNames} }

InitNorm ==
  /\ raw \in RawNames
  /\ region_norm = Pending /\ region_renorm = Pending /\ geo_norm = Pending

\* the CASE of the query applied to the raw name
NormalizeEmissions ==
  /\ region_norm = Pending
  /\ region_norm' = RegionNorm(raw)
  /\ UNCHANGED <<raw, region_renorm, geo_norm>>
  /\ UNCHANGED <<varsFmt, varsFil, varsTop, varsCache, varsRun>>

\* the CASE applied to its own result
NormalizeAgain ==
  /\ region_norm # Pending /\ region_renorm = Pending
  /\ region_renorm' = RegionNorm(region_norm)
  /\ UNCHANGED <<raw, region_norm, geo_norm>>
  /\ UNCHANGED <<varsFmt, varsFil, varsTop, varsCache, varsRun>>

\* gdf["Region"].map(mapa_norm) for a feature whose Region is the raw name
NormalizeGeometry ==
  /\ geo_norm = Pending
  /\ geo_norm' = MapaNorm(raw)
  /\ UNCHANGED <<raw, region_norm, region_renorm>>
  /\ UNCHANGED <<varsFmt, varsFil, varsTop, varsCache, varsRun>>

NextNorm == NormalizeEmissions \/ NormalizeAgain \/ NormalizeGeometry

InitNormAll ==
  InitNorm /\ IdleFmt /\ IdleFil /\ IdleTop /\ IdleCache /\ IdleRun

SpecNorm == InitNormAll /\ [][NextNorm]_vars

\* C4: the emissions-side normalizer is idempotent: normalizing the result of
\* a normalization gives that result again, for every raw name.
C4_Idempotent == region_renorm # Pending => region_renorm = region_norm

\* C4 witness: a padded, re-cased spelling was mapped by an arm to a canonical
\* name different from its trimmed text, and normalized a second time.
C4_Witness ==
  /\ region_renorm # Pending
  /\ raw # Trim(raw)
  /\ region_norm # Trim(raw)
  /\ \E i \in 1..Len(CaseTable) : region_norm = CaseTable[i][2]

\* C5 (as claimed): a feature whose Region is no key of mapa_norm gets
\* region_norm 'Sin demarcar', and region_norm is never missing.
C5_SentinelFallback ==
  geo_norm # Pending =>
    /\ geo_norm # NaN
    /\ (\A i \in 1..Len(mapa_norm) : mapa_norm[i][1] # raw) => geo_norm = SinDemarcar

(***************************************************************************)
(* Number formatting                                                       *)
(***************************************************************************)
Digits == <<"0","1","2","3","4","5","6","7","8","9">>

\* str(n) of a non-negative integer
RECURSIVE IntToStr(_)
IntToStr(n) ==
  IF n < 10 THEN <<Digits[n + 1]>>
  ELSE IntToStr(n \div 10) \o <<Digits[(n % 10) + 1]>>

\* round(v / d) to the nearest integer, a tie going to the even one, as
\* format(v / d, ".0f") rounds a quotient that is exactly representable
RoundHalfEven(v, d) ==
  LET q == v \div d
      r == v % d
  IN  IF 2 * r > d \/ (2 * r = d /\ q % 2 = 1) THEN q + 1 ELSE q

\* format(v / 1e6, ".1f"); the values modelled are never a tie of this rounding
Fixed1M(v) ==
  LET t == (v + 50000) \div 100000
  IN  IntToStr(t \div 10) \o <<".">> \o <<Digits[(t % 10) + 1]>>

\* format(v / 1e6, ".2f"), for the top-10 labels
Fixed2M(v) ==
  LET t == (v + 5000) \div 10000
  IN  IntToStr(t \div 100) \o <<".">> \o <<Digits[((t \div 10) % 10) + 1]>>
        \o <<Digits[(t % 10) + 1]>>

\* the text of a heatmap cell
CellText(v) ==
  IF v >= 1000000 THEN Fixed1M(v) \o <<"M">>
  ELSE IF v >= 1000 THEN IntToStr(v \div 1000) \o <<"k">>
  ELSE IntToStr(v)

\* emis_str, the quantity in the hover text of a heatmap cell
HoverText(emis) ==
  IF emis >= 1000000 THEN Fixed1M(emis) \o <<"M"," ","T","o","n">>
  ELSE IF emis >= 1000 THEN IntToStr(RoundHalfEven(emis, 1000)) \o <<"k"," ","T","o","n">>
  ELSE IntToStr(emis) \o <<" ","T","o","n">>

(***************************************************************************)
(* SpecFmt: one value rendered as cell text and as hover text              *)
(***************************************************************************)
MaxVal == 2600

FmtVals ==
  (0..MaxVal) \cup
    {999000, 999499, 999500, 999999, 1000000, 1049999, 1250001, 2340000, 12360000}

InitFmt == val \in FmtVals /\ text_val = Pending /\ emis_str = Pending

FormatCell ==
  /\ text_val = Pending
  /\ text_val' = CellText(val)
  /\ UNCHANGED <<val, emis_str>>
  /\ UNCHANGED <<varsNorm, varsFil, varsTop, varsCache, varsRun>>

FormatHover ==
  /\ emis_str = Pending
  /\ emis_str' = HoverText(val)
  /\ UNCHANGED <<val, text_val>>
  /\ UNCHANGED <<varsNorm, varsFil, varsTop, varsCache, varsRun>>

NextFmt == FormatCell \/ FormatHover

InitFmtAll ==
  IdleNorm /\ InitFmt /\ IdleFil /\ IdleTop /\ IdleCache /\ IdleRun

SpecFmt == InitFmtAll /\ [][NextFmt]_vars

\* C8 (as claimed): the hover string of a value is its cell text followed by
\* ' Ton', so both show the same number.
C8_SameNumber ==
  (text_val # Pending /\ emis_str # Pending) =>
    emis_str = text_val \o <<" ","T","o","n">>

(***************************************************************************)
(* Tables and filtrar_emisiones                                            *)
(***************************************************************************)
Todos == <<"T","o","d","o","s">>
Mineria == <<"M","i","n","e","r","í","a">>
Energia == <<"E","n","e","r","g","í","a">>
MP10 == <<"M","P","1","0">>
SO2 == <<"S","O","2">>
Tarapaca == <<"T","a","r","a","p","a","c","á">>
Maule == <<"M","a","u","l","e">>
E1 == <<"E","1">>
E2 == <<"E","2">>
PlantaNorte == <<"P","l","a","n","t","a"," ","N","o","r","t","e">>
PlantaSur == <<"P","l","a","n","t","a"," ","S","u","r">>

NoneInt == <<>>

\* Python truth of an optional text argument: None and '' are false
Truthy(s) == s # None /\ s # <<>>

\* the year predicate applied whenever at least one bound is given, a
\* missing bound leaving that side open
YearFilter_OpenEnded(t, anio_min, anio_max) ==
  SelectSeq(t, LAMBDA r :
    /\ anio_min # NoneInt => r.period >= anio_min[1]
    /\ anio_max # NoneInt => r.period <= anio_max[1])

\* lines 169-170
YearFilter(t, anio_min, anio_max) ==
  IF anio_min # NoneInt /\ anio_max # NoneInt
  THEN SelectSeq(t, LAMBDA r : r.period >= anio_min[1] /\ r.period <= anio_max[1])
  ELSE t

filtrar_emisiones(t, rubro, contaminante, region, anio_min, anio_max) ==
  LET a == IF Truthy(rubro) /\ rubro # Todos
           THEN SelectSeq(t, LAMBDA r : r.rubro_vu = rubro) ELSE t
      b == IF Truthy(contaminante) /\ contaminante # Todos
           THEN SelectSeq(a, LAMBDA r : r.contaminantes = contaminante) ELSE a
      c == IF Truthy(region) /\ region # Todos
           THEN SelectSeq(b, LAMBDA r : r.region_norm = region) ELSE b
  IN  YearFilter(c, anio_min, anio_max)

(***************************************************************************)
(* SpecFiltrar: one direct call of filtrar_emisiones                       *)
(***************************************************************************)
MaxRows == 2

FilRows ==
  [ period : {2018, 2019, 2020},
    region_norm : {Tarapaca, Maule},
    id_vu : {E1},
    nombre_establecimiento : {PlantaNorte},
    rubro_vu : {Mineria, Energia},
    contaminantes : {MP10, NaN},
    emisiones : {100} ]

FilTables == UNION {[1..n -> FilRows] : n \in 0..MaxRows}

FilArgs ==
  [ rubro : {None, Todos, <<>>, Mineria},
    contaminante : {None, Todos, MP10},
    region : {None, Todos, Tarapaca},
    anio_min : {NoneInt, <<2019>>},
    anio_max : {NoneInt, <<2019>>} ]

InitFil == df \in FilTables /\ args \in FilArgs /\ df2 = NoResult

Filtrar ==
  /\ df2 = NoResult
  /\ df2' = <<filtrar_emisiones(df, args.rubro, args.contaminante, args.region,
                                args.anio_min, args.anio_max)>>
  /\ UNCHANGED <<df, args>>
  /\ UNCHANGED <<varsNorm, varsFmt, varsTop, varsCache, varsRun>>

NextFil == Filtrar

InitFilAll ==
  IdleNorm /\ IdleFmt /\ InitFil /\ IdleTop /\ IdleCache /\ IdleRun

SpecFiltrar == InitFilAll /\ [][NextFil]_vars

\* a text criterion as the claim reads it: it applies unless None or 'Todos'
ClaimedActive(c) == c # None /\ c # Todos

\* C1 (as claimed): the result is exactly the rows of df, in order, that meet
\* every criterion that is not None or 'Todos' and lie within the year
\* bounds when both are given.
C1_ExactRows ==
  df2 # NoResult =>
    df2[1] = SelectSeq(df, LAMBDA r :
            /\ ClaimedActive(args.rubro) => r.rubro_vu = args.rubro
            /\ ClaimedActive(args.contaminante) => r.contaminantes = args.contaminante
            /\ ClaimedActive(args.region) => r.region_norm = args.region
            /\ (args.anio_min # NoneInt /\ args.anio_max # NoneInt) =>
                 (args.anio_min[1] <= r.period /\ r.period <= args.anio_max[1]))

\* C2: with exactly one year bound given, no row is dropped for its period:
\* the result is the rows of df, in order, that pass the text criteria the
\* call applies, whatever their year.
C2_PartialBoundIgnored ==
  (df2 # NoResult /\ ((args.anio_min = NoneInt) # (args.anio_max = NoneInt))) =>
    df2[1] = SelectSeq(df, LAMBDA r :
            /\ (Truthy(args.rubro) /\ args.rubro # Todos) => r.rubro_vu = args.rubro
            /\ (Truthy(args.contaminante) /\ args.contaminante # Todos) =>
                 r.contaminantes = args.contaminante
            /\ (Truthy(args.region) /\ args.region # Todos) => r.region_norm = args.region)

\* C2 witness: anio_min = 2019 and anio_max = None, and a 2018 record and a
\* 2020 record both came through.
C2_Witness ==
  /\ df2 # NoResult
  /\ args.anio_min = <<2019>> /\ args.anio_max = NoneInt
  /\ \E i, j \in 1..Len(df2[1]) : df2[1][i].period = 2018 /\ df2[1][j].period = 2020

(***************************************************************************)
(* Grouping, sorting and the top-10 ranking                                *)
(***************************************************************************)
\* the characters of the model's texts in code-point order
CodeOrder ==
  <<"\t"," ","%","'","-",".","0","1","2","3","4","5","6","7","8","9",
    "A","B","C","D","E","F","G","H","I","J","K","L","M","N","O","P","Q","R",
    "S","T","U","V","W","X","Y","Z",
    "a","b","c","d","e","f","g","h","i","j","k","l","m","n","o","p","q","r",
    "s","t","u","v","w","x","y","z",
    "Á","É","Í","Ñ","Ó","Ú","á","é","í","ñ","ó","ú">>

CharCode == [c \in {CodeOrder[i] : i \in 1..Len(CodeOrder)} |-> IndexIn(c, CodeOrder)]

\* a < b for two Python strings
RECURSIVE LessText(_, _)
LessText(a, b) ==
  IF b = <<>> THEN FALSE
  ELSE IF a = <<>> THEN TRUE
  ELSE IF Head(a) = Head(b) THEN LessText(Tail(a), Tail(b))
  ELSE CharCode[Head(a)] < CharCode[Head(b)]

\* the elements of S as a sequence, x at place before[x] + 1, where before[x]
\* is the number of elements a strict total order puts before x
Ordered(S, before) == [k \in 1..Cardinality(S) |-> CHOOSE x \in S : before[x] = k - 1]

\* a set of texts, ascending
SortTexts(S) == Ordered(S, [x \in S |-> Cardinality({y \in S : LessText(y, x)})])

\* a set of integers, ascending
SortInts(S) == Ordered(S, [x \in S |-> Cardinality({y \in S : y < x})])

RECURSIVE SumEmisiones(_)
SumEmisiones(t) == IF t = <<>> THEN 0 ELSE Head(t).emisiones + SumEmisiones(Tail(t))

\* Series.sort_values(ascending=...): the default sort is not stable, so
\* groups of equal sum come out in either of the two orders tb names
SortValues(g, ascending, tb) ==
  LET first(i, j) == IF tb = "asc" THEN i < j ELSE i > j
      before(i, j) ==
        \/ IF ascending THEN g[i].sum < g[j].sum ELSE g[i].sum > g[j].sum
        \/ g[i].sum = g[j].sum /\ first(i, j)
      I == 1..Len(g)
      idx == Ordered(I, [i \in I |-> Cardinality({j \in I : before(j, i)})])
  IN  [k \in 1..Len(g) |-> g[idx[k]]]

TopN == 10

\* .head(10) that keeps every entry
HeadN_All(s) == s

\* .head(10)
HeadN(s) == SubSeq(s, 1, IF Len(s) < TopN THEN Len(s) ELSE TopN)

FacilityKey(r) == <<r.id_vu, r.nombre_establecimiento>>

LessFacility(j, k) == LessText(j[1], k[1]) \/ (j[1] = k[1] /\ LessText(j[2], k[2]))

\* groupby(["id_vu", "nombre_establecimiento"])["emisiones"].sum(): one entry
\* per key, ascending by key; a row with a missing key column is in no group
GroupFacilities(t) ==
  LET keys == {FacilityKey(t[i]) : i \in 1..Len(t)}
      kept == {k \in keys : k[1] # NaN /\ k[2] # NaN}
      sorted == Ordered(kept, [x \in kept |-> Cardinality({y \in kept : LessFacility(y, x)})])
  IN  [n \in 1..Len(sorted) |->
        [ key |-> sorted[n],
          sum |-> SumEmisiones(SelectSeq(t, LAMBDA r : FacilityKey(r) = sorted[n])) ]]

\* the top10 Series of a group of records
Top10(t, tb) == HeadN(SortValues(GroupFacilities(t), FALSE, tb))

(***************************************************************************)
(* SpecTop: the ranking of one group of records                            *)
(***************************************************************************)
MaxFac == 11

\* one record per establishment E1..E<MaxFac>, several of equal quantity, a
\* second record of E1, a second establishment named E1, and a record
\* whose establishment name is missing
TopPool ==
  [k \in 1..MaxFac |->
    [ period |-> 2020, region_norm |-> Tarapaca, id_vu |-> <<"E">> \o IntToStr(k),
      nombre_establecimiento |-> PlantaNorte, rubro_vu |-> Mineria,
      contaminantes |-> MP10, emisiones |-> 100 * (((k * 3) % 4) + 1) ]]
  \o << [ period |-> 2020, region_norm |-> Tarapaca, id_vu |-> E1,
          nombre_establecimiento |-> PlantaNorte, rubro_vu |-> Mineria,
          contaminantes |-> MP10, emisiones |-> 250 ],
        [ period |-> 2020, region_norm |-> Tarapaca, id_vu |-> E1,
          nombre_establecimiento |-> PlantaSur, rubro_vu |-> Mineria,
          contaminantes |-> MP10, emisiones |-> 300 ],
        [ period |-> 2020, region_norm |-> Tarapaca, id_vu |-> E2,
          nombre_establecimiento |-> NaN, rubro_vu |-> Mineria,
          contaminantes |-> MP10, emisiones |-> 900 ] >>

\* the rows of t at the positions in S, in order
Pick(t, S) == LET idx == SortInts(S) IN [k \in 1..Len(idx) |-> t[idx[k]]]

InitTop ==
  /\ df_r \in {Pick(TopPool, S) : S \in SUBSET (1..Len(TopPool))}
  /\ tie \in {"asc", "desc"}
  /\ top10 = NoResult

Rank ==
  /\ top10 = NoResult
  /\ top10' = <<Top10(df_r, tie)>>
  /\ UNCHANGED <<df_r, tie>>
  /\ UNCHANGED <<varsNorm, varsFmt, varsFil, varsCache, varsRun>>

NextTop == Rank

InitTopAll ==
  IdleNorm /\ IdleFmt /\ IdleFil /\ InitTop /\ IdleCache /\ IdleRun

SpecTop == InitTopAll /\ [][NextTop]_vars

\* the establishments (id_vu, nombre_establecimiento) with records in df_r
Facilities == {FacilityKey(df_r[i]) : i \in 1..Len(df_r)}

FacilityTotal(k) == SumEmisiones(SelectSeq(df_r, LAMBDA r : FacilityKey(r) = k))

\* C7: the ranking has at most 10 entries, never increases from one entry to
\* the next, lists no establishment twice, gives each listed establishment the
\* sum of its records in the group, and leaves out only establishments whose
\* sum is no larger than the last one listed.
C7_Top10 ==
  top10 # NoResult =>
    LET t == top10[1] IN
      /\ Len(t) <= 10
      /\ \A i \in 1..Len(t) : \A j \in 1..Len(t) : i < j =>
           t[i].sum >= t[j].sum /\ t[i].key # t[j].key
      /\ \A i \in 1..Len(t) : t[i].key \in Facilities /\ t[i].sum = FacilityTotal(t[i].key)
      /\ \A k \in Facilities :
           (k[2] # NaN /\ \A i \in 1..Len(t) : t[i].key # k) =>
             (Len(t) = 10 /\ FacilityTotal(k) <= t[10].sum)

\* C7 witness: a group of more than 10 establishments, one of them with two
\* records, ranked to exactly 10 entries that include the one with two records.
C7_Witness ==
  /\ top10 # NoResult
  /\ Cardinality({k \in Facilities : k[2] # NaN}) > 10
  /\ Len(top10[1]) = 10
  /\ \E i \in 1..10 :
       /\ top10[1][i].key = <<E1, PlantaNorte>>
       /\ top10[1][i].sum = 650

(***************************************************************************)
(* SpecCache: the two st.cache_data caches under a clock                   *)
(*                                                                         *)
(* A cache holds nothing, <<>>, or one entry <<[value, created]>>.  source *)
(* numbers the contents of the data behind the loaders, so a snapshot is   *)
(* the number read when the loader body ran.  Time is in seconds.          *)
(***************************************************************************)
MaxClock == 90000
MaxSource == 1

Deltas == {1800, 3600, 43200}

\* both caches given the emissions window
Ttl_OneWindow(fn) == 3600

\* @st.cache_data(ttl=3600) on load_emissions_data, ttl=86400 on
\* load_regions_geojson
Ttl(fn) == IF fn = "emis" THEN 3600 ELSE 86400

\* an entry is served while the clock is before created + ttl; it is looked
\* at only when the function is called
Fresh(cache, fn) == cache # <<>> /\ now < cache[1].created + Ttl(fn)

InitCache ==
  /\ now = 0 /\ source \in 0..MaxSource /\ emisCache = <<>> /\ geoCache = <<>>
  /\ lastFn = "none" /\ queried = FALSE /\ ret = 0

Advance ==
  /\ \E d \in Deltas : now + d <= MaxClock /\ now' = now + d
  /\ UNCHANGED <<source, emisCache, geoCache, lastFn, queried, ret>>
  /\ UNCHANGED <<varsNorm, varsFmt, varsFil, varsTop, varsRun>>

\* the database table or the geometry file changes
SourceChange ==
  /\ source < MaxSource
  /\ source' = source + 1
  /\ UNCHANGED <<now, emisCache, geoCache, lastFn, queried, ret>>
  /\ UNCHANGED <<varsNorm, varsFmt, varsFil, varsTop, varsRun>>

\* load_emissions_data()
CallLoadEmissions ==
  /\ lastFn' = "emis"
  /\ IF Fresh(emisCache, "emis")
     THEN queried' = FALSE /\ ret' = emisCache[1].value /\ emisCache' = emisCache
     ELSE /\ queried' = TRUE /\ ret' = source
          /\ emisCache' = <<[value |-> source, created |-> now]>>
  /\ UNCHANGED <<now, source, geoCache>>
  /\ UNCHANGED <<varsNorm, varsFmt, varsFil, varsTop, varsRun>>

\* load_regions_geojson("Regional.geojson")
CallLoadRegions ==
  /\ lastFn' = "geo"
  /\ IF Fresh(geoCache, "geo")
     THEN queried' = FALSE /\ ret' = geoCache[1].value /\ geoCache' = geoCache
     ELSE /\ queried' = TRUE /\ ret' = source
          /\ geoCache' = <<[value |-> source, created |-> now]>>
  /\ UNCHANGED <<now, source, emisCache>>
  /\ UNCHANGED <<varsNorm, varsFmt, varsFil, varsTop, varsRun>>

NextCache == Advance \/ SourceChange \/ CallLoadEmissions \/ CallLoadRegions

InitCacheAll ==
  IdleNorm /\ IdleFmt /\ IdleFil /\ IdleTop /\ InitCache /\ IdleRun

SpecCache == InitCacheAll /\ [][NextCache]_vars

SqlQuery(rows) ==
  LET kept == SelectSeq(rows, LAMBDA e :
                /\ e.period >= 2005 /\ e.period <= 2023
                /\ e.cantidad_toneladas # NoneInt
                /\ e.region # None
                /\ e.rubro_vu # None)
  IN  [i \in 1..Len(kept) |->
        [ period |-> kept[i].period,
          region_norm |-> RegionNorm(kept[i].region),
          id_vu |-> kept[i].id_vu,
          nombre_establecimiento |-> kept[i].nombre_establecimiento,
          rubro_vu |-> kept[i].rubro_vu,
          contaminantes |-> kept[i].contaminantes,
          emisiones |-> kept[i].cantidad_toneladas[1] ]]

\* the values of a text column that are not missing: dropna().unique()
Unique(t, col) == {t[i][col] : i \in 1..Len(t)} \ {NaN, None}

\* a groupby that keeps the first record's quantity of each group
GroupSum_First(t, col) ==
  LET sorted == SortTexts(Unique(t, col))
  IN  [n \in 1..Len(sorted) |->
        [ key |-> sorted[n],
          sum |-> Head(SelectSeq(t, LAMBDA r : r[col] = sorted[n])).emisiones ]]

\* groupby(col)["emisiones"].sum() for a text column: one entry per value
\* of the column, ascending by value
GroupSum(t, col) ==
  LET sorted == SortTexts(Unique(t, col))
  IN  [n \in 1..Len(sorted) |->
        [ key |-> sorted[n],
          sum |-> SumEmisiones(SelectSeq(t, LAMBDA r : r[col] = sorted[n])) ]]

Br == <<"<","b","r",">">>

\* "<br>".join(parts)
RECURSIVE JoinBr(_)
JoinBr(parts) ==
  IF parts = <<>> THEN <<>>
  ELSE IF Len(parts) = 1 THEN parts[1]
  ELSE parts[1] \o Br \o JoinBr(Tail(parts))

\* the en dash U+2013 of the labels, as one element of a text
EnDash == "--"

\* f"{id_vu} <en dash> {nombre} ({val/1e6:.2f} M)"
Top10Label(e) ==
  e.key[1] \o <<" ",EnDash," ">> \o e.key[2] \o <<" ","(">> \o Fixed2M(e.sum) \o <<" ","M",")">>

\* the joined labels of the ranking of a group of records
Top10Html(t, tb) ==
  LET top == Top10(t, tb) IN JoinBr([i \in 1..Len(top) |-> Top10Label(top[i])])

SinDatos == <<"S","i","n"," ","d","a","t","o","s">>

\* the hover list of a cell built without looking whether the cell has records
Top10Str_NoGuard(t, tb) == Top10Html(t, tb)

\* top10_str of a heatmap cell (lines 410-422)
Top10Str(t, tb) == IF t = <<>> THEN SinDatos ELSE Top10Html(t, tb)

\* emis_region (lines 246-273) / emis_rubro (lines 308-335): the groups
\* ascending by total, each with its top-10 list
Summary(t, col, tb) ==
  LET g == SortValues(GroupSum(t, col), TRUE, tb)
  IN  [i \in 1..Len(g) |->
        [ key |-> g[i].key,
          emisiones |-> g[i].sum,
          Top10_Establecimientos |->
            Top10Html(SelectSeq(t, LAMBDA r : r[col] = g[i].key), tb) ]]

\* pivot, text_vals and hovertext of the heatmap (lines 370-431); a hover
\* entry holds the four values its fixed markup is filled with
Heatmap(t, tb) ==
  LET regions == SortTexts(Unique(t, "region_norm"))
      years == SortInts({t[i].period : i \in 1..Len(t)})
      cell(i, j) == SelectSeq(t, LAMBDA r : r.region_norm = regions[i] /\ r.period = years[j])
      z_vals == [i \in 1..Len(regions) |-> [j \in 1..Len(years) |->
                  IF cell(i, j) = <<>> THEN 0 ELSE SumEmisiones(cell(i, j))]]
  IN  [ regions |-> regions,
        years |-> years,
        z_vals |-> z_vals,
        text_vals |-> [i \in 1..Len(regions) |-> [j \in 1..Len(years) |->
                        CellText(z_vals[i][j])]],
        hovertext |-> [i \in 1..Len(regions) |-> [j \in 1..Len(years) |->
                        [ region |-> regions[i],
                          year |-> years[j],
                          emis_str |-> HoverText(z_vals[i][j]),
                          top10_str |-> Top10Str(cell(i, j), tb) ]]] ]

\* the Region of each feature of Regional.geojson: one feature per key of
\* mapa_norm (the file itself is not part of the repository)
GeoFile == [i \in 1..Len(mapa_norm) |-> mapa_norm[i][1]]

\* load_regions_geojson: the features with their region_norm
load_regions_geojson(file) ==
  [i \in 1..Len(file) |-> [Region |-> file[i], region_norm |-> MapaNorm(file[i])]]

\* a geometry side that keeps region_norm as written
UpperOrNaN_AsIs(s) == s

UpperOrNaN(s) == IF s = NaN THEN NaN ELSE Upper(s)

RECURSIVE Concat(_)
Concat(ss) == IF ss = <<>> THEN <<>> ELSE Head(ss) \o Concat(Tail(ss))

\* geo_merged (lines 477-488): the left merge of the features with the
\* per-region totals on REGION_UP, a feature without a total getting 0
GeoMerged(t, file) ==
  LET gdf == load_regions_geojson(file)
      totals == GroupSum(t, "region_norm")
      joined(f) ==
        LET up == UpperOrNaN(f.region_norm)
            hits == SelectSeq(totals, LAMBDA e : Upper(e.key) = up)
        IN  IF hits = <<>>
            THEN << [Region |-> f.Region, REGION_UP |-> up, emisiones |-> 0] >>
            ELSE [k \in 1..Len(hits) |->
                   [Region |-> f.Region, REGION_UP |-> up, emisiones |-> hits[k].sum]]
  IN  Concat([i \in 1..Len(gdf) |-> joined(gdf[i])])

(***************************************************************************)
(* Spec: runs of the script over one database                              *)
(*                                                                         *)
(* A run loads the emissions (from the cache once it is filled: the runs   *)
(* modelled lie within one cache window), reads the sidebar widgets,       *)
(* filters, and fills the four tabs in order; an uncaught exception ends   *)
(* the run.  A widget returns any value the user can set it to.            *)
(***************************************************************************)
MaxDbRows == 2

DbRow(period, region, id_vu, nombre, rubro_vu, contaminantes, cantidad) ==
  [ period |-> period, region |-> region, id_vu |-> id_vu,
    nombre_establecimiento |-> nombre, rubro_vu |-> rubro_vu,
    contaminantes |-> contaminantes, cantidad_toneladas |-> cantidad ]

\* rows air_ps.emissions_hist may hold
DbRows ==
  { DbRow(2020, Tarapaca, E1, PlantaNorte, Mineria, MP10, <<500>>),
    DbRow(2020, <<"t","a","r","a","p","a","c","á"," ">>, E2, PlantaSur, Mineria, MP10, <<300>>),
    DbRow(2019, Maule, E1, PlantaNorte, Energia, SO2, <<2000>>),
    DbRow(2019, <<" ","M","A","U","L","E">>, E2, PlantaSur, Mineria, NaN, <<1500>>),
    DbRow(2004, Maule, E1, PlantaNorte, Mineria, MP10, <<700>>),
    DbRow(2020, Maule, E2, PlantaSur, Energia, SO2, NoneInt) }

DbTables == UNION {[1..n -> DbRows] : n \in 0..MaxDbRows}

NoTab == [kind |-> "none"]
Warning == [kind |-> "warning"]

InitRun ==
  /\ db \in DbTables
  /\ df_emisiones = NoResult /\ sel = <<>> /\ df_filtrado = NoResult
  /\ tabs = <<NoTab, NoTab, NoTab, NoTab>>
  /\ pc = "load"

\* line 191: load_emissions_data(), cached
LoadEmissions ==
  /\ pc = "load"
  /\ df_emisiones' = IF df_emisiones = NoResult THEN <<SqlQuery(db)>> ELSE df_emisiones
  /\ pc' = "sidebar"
  /\ UNCHANGED <<db, sel, df_filtrado, tabs>>
  /\ UNCHANGED <<varsNorm, varsFmt, varsFil, varsTop, varsCache>>

\* lines 194-215: the slider and the three select boxes.  On a table without
\* rows period.min() is NaN and int(NaN) raises ValueError.
Sidebar ==
  /\ pc = "sidebar"
  /\ LET t == df_emisiones[1]
         periods == {t[i].period : i \in 1..Len(t)}
     IN  IF t = <<>>
         THEN pc' = "crashed" /\ sel' = sel
         ELSE /\ \E lo \in Min(periods)..Max(periods), hi \in Min(periods)..Max(periods),
                    ru \in {Todos} \cup Unique(t, "rubro_vu"),
                    co \in {Todos} \cup Unique(t, "contaminantes"),
                    re \in {Todos} \cup Unique(t, "region_norm") :
                  /\ lo <= hi
                  /\ sel' = << [ anio_min |-> <<lo>>, anio_max |-> <<hi>>, rubro_sel |-> ru,
                                 contaminante_sel |-> co, region_sel |-> re ] >>
              /\ pc' = "filter"
  /\ UNCHANGED <<db, df_emisiones, df_filtrado, tabs>>
  /\ UNCHANGED <<varsNorm, varsFmt, varsFil, varsTop, varsCache>>

\* lines 218-225
FilterBase ==
  /\ pc = "filter"
  /\ df_filtrado' = << filtrar_emisiones(df_emisiones[1], sel[1].rubro_sel,
                         sel[1].contaminante_sel, sel[1].region_sel,
                         sel[1].anio_min, sel[1].anio_max) >>
  /\ pc' = "tab0"
  /\ UNCHANGED <<db, df_emisiones, sel, tabs>>
  /\ UNCHANGED <<varsNorm, varsFmt, varsFil, varsTop, varsCache>>

\* lines 240-298
Tab0 ==
  /\ pc = "tab0"
  /\ IF df_filtrado[1] = <<>>
     THEN tabs' = [tabs EXCEPT ![1] = Warning]
     ELSE \E tb \in {"asc", "desc"} :
            tabs' = [tabs EXCEPT ![1] =
                      [kind |-> "chart", emis_region |-> Summary(df_filtrado[1], "region_norm", tb)]]
  /\ pc' = "tab1"
  /\ UNCHANGED <<db, df_emisiones, sel, df_filtrado>>
  /\ UNCHANGED <<varsNorm, varsFmt, varsFil, varsTop, varsCache>>

\* lines 303-360
Tab1 ==
  /\ pc = "tab1"
  /\ IF df_filtrado[1] = <<>>
     THEN tabs' = [tabs EXCEPT ![2] = Warning]
     ELSE \E tb \in {"asc", "desc"} :
            tabs' = [tabs EXCEPT ![2] =
                      [kind |-> "chart", emis_rubro |-> Summary(df_filtrado[1], "rubro_vu", tb)]]
  /\ pc' = "tab2"
  /\ UNCHANGED <<db, df_emisiones, sel, df_filtrado>>
  /\ UNCHANGED <<varsNorm, varsFmt, varsFil, varsTop, varsCache>>

\* lines 365-453
Tab2 ==
  /\ pc = "tab2"
  /\ IF df_filtrado[1] = <<>>
     THEN tabs' = [tabs EXCEPT ![3] = Warning]
     ELSE \E tb \in {"asc", "desc"} :
            tabs' = [tabs EXCEPT ![3] =
                      [kind |-> "chart", heatmap |-> Heatmap(df_filtrado[1], tb)]]
  /\ pc' = "tab3"
  /\ UNCHANGED <<db, df_emisiones, sel, df_filtrado>>
  /\ UNCHANGED <<varsNorm, varsFmt, varsFil, varsTop, varsCache>>

\* lines 458-512; the rotation of the geometries is not modelled
Tab3 ==
  /\ pc = "tab3"
  /\ IF df_filtrado[1] = <<>>
     THEN tabs' = [tabs EXCEPT ![4] = Warning]
     ELSE tabs' = [tabs EXCEPT ![4] =
                    [kind |-> "chart", geo_merged |-> GeoMerged(df_filtrado[1], GeoFile)]]
  /\ pc' = "done"
  /\ UNCHANGED <<db, df_emisiones, sel, df_filtrado>>
  /\ UNCHANGED <<varsNorm, varsFmt, varsFil, varsTop, varsCache>>

\* a widget change or a reload starts the script again
Rerun ==
  /\ pc \in {"done", "crashed"}
  /\ pc' = "load"
  /\ sel' = <<>> /\ df_filtrado' = NoResult
  /\ tabs' = <<NoTab, NoTab, NoTab, NoTab>>
  /\ UNCHANGED <<db, df_emisiones>>
  /\ UNCHANGED <<varsNorm, varsFmt, varsFil, varsTop, varsCache>>

Next == LoadEmissions \/ Sidebar \/ FilterBase \/ Tab0 \/ Tab1 \/ Tab2 \/ Tab3 \/ Rerun

Init == IdleNorm /\ IdleFmt /\ IdleFil /\ IdleTop /\ IdleCache /\ InitRun

Spec == Init /\ [][Next]_vars

\* the rows of the loaded table that meet the widgets' criteria
Satisfying ==
  SelectSeq(df_emisiones[1], LAMBDA r :
    /\ ClaimedActive(sel[1].rubro_sel) => r.rubro_vu = sel[1].rubro_sel
    /\ ClaimedActive(sel[1].contaminante_sel) => r.contaminantes = sel[1].contaminante_sel
    /\ ClaimedActive(sel[1].region_sel) => r.region_norm = sel[1].region_sel
    /\ sel[1].anio_min[1] <= r.period /\ r.period <= sel[1].anio_max[1])

\* C3 (as claimed): a run whose table has no record meeting the criteria, an
\* empty loaded table included, ends with each of the four tabs showing its
\* 'no data' warning, and nothing raised.
C3_EmptyIsNoData ==
  ( /\ pc \in {"done", "crashed"}
    /\ df_emisiones # NoResult
    /\ df_emisiones[1] = <<>> \/ (sel # <<>> /\ Satisfying = <<>>) )
  => /\ pc = "done"
     /\ \A i \in 1..4 : tabs[i].kind = "warning"

\* C6: the per-region totals of tab 1 add up to the total of the filtered
\* records, every region of a record is the key of exactly one group, and the
\* records 'Tarapacá' (500) and 'tarapacá ' (300) make one group of 800.
C6_Conservation ==
  tabs[1].kind = "chart" =>
    LET g == tabs[1].emis_region
        t == df_filtrado[1]
    IN  /\ SumEmisiones(g) = SumEmisiones(t)
        /\ \A i \in 1..Len(t) :
             Cardinality({k \in 1..Len(g) : g[k].key = t[i].region_norm}) = 1
        /\ \A k \in 1..Len(g) :
             g[k].emisiones = SumEmisiones(SelectSeq(t, LAMBDA r : r.region_norm = g[k].key))
        /\ ( /\ Len(db) = 2 /\ Len(t) = 2
             /\ {db[1].region, db[2].region} =
                  {Tarapaca, <<"t","a","r","a","p","a","c","á"," ">>}
             /\ db[1].region # db[2].region )
           => (Len(g) = 1 /\ g[1].key = Tarapaca /\ g[1].emisiones = 800)

\* C6 witness: the database holds the 'Tarapacá' (500) and the 'tarapacá '
\* (300) record, both pass the filter, and tab 1 shows one group of 800.
C6_Witness ==
  /\ tabs[1].kind = "chart"
  /\ Len(db) = 2 /\ db[1].region = Tarapaca /\ db[1].cantidad_toneladas = <<500>>
  /\ db[2].region = <<"t","a","r","a","p","a","c","á"," ">>
  /\ db[2].cantidad_toneladas = <<300>>
  /\ Len(df_filtrado[1]) = 2
  /\ Len(tabs[1].emis_region) = 1
  /\ tabs[1].emis_region[1].emisiones = 800

\* C10: the heatmap has a cell for every region and every year of the
\* filtered records; a cell without records is 0 with the label 'Sin datos',
\* a cell with records is the sum of their emisiones and is not labelled
\* 'Sin datos'; the region and category summaries have no group without
\* records.
C10_DenseGrid ==
  ( /\ tabs[1].kind = "chart" => \A k \in 1..Len(tabs[1].emis_region) :
         \E i \in 1..Len(df_filtrado[1]) :
           df_filtrado[1][i].region_norm = tabs[1].emis_region[k].key )
  /\ ( tabs[2].kind = "chart" => \A k \in 1..Len(tabs[2].emis_rubro) :
         \E i \in 1..Len(df_filtrado[1]) :
           df_filtrado[1][i].rubro_vu = tabs[2].emis_rubro[k].key )
  /\ ( tabs[3].kind = "chart" =>
       LET h == tabs[3].heatmap
           t == df_filtrado[1]
           at(i, j) == SelectSeq(t, LAMBDA r :
                         r.region_norm = h.regions[i] /\ r.period = h.years[j])
       IN  /\ {h.regions[i] : i \in 1..Len(h.regions)} = {t[n].region_norm : n \in 1..Len(t)}
           /\ {h.years[j] : j \in 1..Len(h.years)} = {t[n].period : n \in 1..Len(t)}
           /\ Len(h.z_vals) = Len(h.regions) /\ Len(h.hovertext) = Len(h.regions)
           /\ \A i \in 1..Len(h.regions) :
                /\ Len(h.z_vals[i]) = Len(h.years) /\ Len(h.hovertext[i]) = Len(h.years)
                /\ \A j \in 1..Len(h.years) :
                     IF at(i, j) = <<>>
                     THEN h.z_vals[i][j] = 0 /\ h.hovertext[i][j].top10_str = SinDatos
                     ELSE /\ h.z_vals[i][j] = SumEmisiones(at(i, j))
                          /\ h.hovertext[i][j].top10_str # SinDatos )

\* C10 witness: a heatmap of two regions and two years in which one cell has
\* a record and another has none.
C10_Witness ==
  /\ tabs[3].kind = "chart"
  /\ Len(tabs[3].heatmap.regions) = 2 /\ Len(tabs[3].heatmap.years) = 2
  /\ tabs[3].heatmap.z_vals[1][1] > 0
  /\ tabs[3].heatmap.z_vals[1][2] = 0
  /\ tabs[3].heatmap.hovertext[1][2].top10_str = SinDatos

\* the names the THEN arms of the CASE table give
CanonicalLabels == {RuleResult(i) : i \in 1..Len(CaseTable)}

\* each of those names is, upper-cased, the upper-cased region_norm of an
\* entry of mapa_norm
LabelsAgree ==
  \A c \in CanonicalLabels :
    \E j \in 1..Len(mapa_norm) : Upper(c) = Upper(mapa_norm[j][2])

====
